---- MODULE Spec2Model ----
(***************************************************************************)
(* generate_silhouette.py: process(in_path, out_path).                     *)
(* The image is loaded as RGBA, the background is found by a breadth-first *)
(* flood fill from the four corners (one fill per corner, each with the    *)
(* corner's own pixel as reference colour), and the label grid is rendered *)
(* as a two-colour mask that is saved once.                                *)
(***************************************************************************)
EXTENDS Integers, Sequences, FiniteSets, TLC

(* ---------------------------------------------------------------------- *)
(* Bounds of the model                                                     *)
(* ---------------------------------------------------------------------- *)
MaxW == 3
MaxH == 3
MaxCells == 9
\* images with more cells than this draw their pixels from CorePalette only
FullPaletteCells == 4
\* the termination check runs on the images of at most this many cells
TermCells == 6

(* ---------------------------------------------------------------------- *)
(* Pixels: <<r, g, b, a>>, 8-bit channels                                  *)
(* ---------------------------------------------------------------------- *)
WHITE == <<255, 255, 255, 255>>
\* squared RGB distance to WHITE: 3 * 17^2 = 867 (distance 29.4)
NEAR == <<238, 238, 238, 255>>
\* squared RGB distance to NEAR: 30^2 = 900 (distance exactly 30)
SUBJ == <<238, 238, 208, 255>>
\* the RGB of SUBJ, almost fully transparent
CLEAR == <<238, 238, 208, 9>>
\* the RGB of WHITE at the first alpha that is not "near zero"
FAINT == <<255, 255, 255, 10>>

CorePalette == {WHITE, SUBJ, CLEAR}
Palette == {WHITE, NEAR, SUBJ, CLEAR, FAINT}

TRANSPARENT == <<0, 0, 0, 0>>
BLACK == <<0, 0, 0, 255>>

TOLERANCE == 30
ALPHA_CUTOFF == 10

NoFile == [exists |-> FALSE, px |-> <<>>]

Cells(W, H) == (0 .. W - 1) \X (0 .. H - 1)

PaletteFor(n) == IF n <= FullPaletteCells THEN Palette ELSE CorePalette

VARIABLES
    readable,   \* whether Image.open(in_path).convert("RGBA") succeeds
    w, h,       \* img.size of the image at in_path
    pixels,     \* img.load(): the RGBA pixels of the image at in_path
    pc,         \* position in process()
    status,     \* the label grid: 0 = unknown, 1 = background
    si,         \* index of the seed the for loop is at (1..4)
    ref_color,  \* reference colour of the running fill
    q,          \* the deque of the running fill
    out_pix,    \* out.load()
    ry,         \* the row the render loop is at
    out_file,   \* the image stored at out_path, or NoFile
    err,        \* the exception caught by the except clause, "" if none
    owner,      \* history: the seed index whose fill labelled the cell, 0 if none
    enq,        \* history: how many times the cell was put in a deque
    saves       \* history: how many times out.save was called

vars == <<readable, w, h, pixels, pc, status, si, ref_color, q, out_pix, ry,
          out_file, err, owner, enq, saves>>

(* ---------------------------------------------------------------------- *)
(* Colour model                                                            *)
(* ---------------------------------------------------------------------- *)
\* color_dist(c1, c2) ** 2: the sum under the square root, over c[:3]
\* variant: alpha counted in the distance
color_dist_sq_rgba(c1, c2) ==
    (c1[1] - c2[1]) * (c1[1] - c2[1])
  + (c1[2] - c2[2]) * (c1[2] - c2[2])
  + (c1[3] - c2[3]) * (c1[3] - c2[3])
  + (c1[4] - c2[4]) * (c1[4] - c2[4])

color_dist_sq(c1, c2) ==
    (c1[1] - c2[1]) * (c1[1] - c2[1])
  + (c1[2] - c2[2]) * (c1[2] - c2[2])
  + (c1[3] - c2[3]) * (c1[3] - c2[3])

\* color_dist(c, ref) < TOLERANCE. math.sqrt is monotonic and exact on perfect
\* squares, so sqrt(s) < 30 exactly when s < 900.
Similar(c, ref) == color_dist_sq(c, ref) < TOLERANCE * TOLERANCE

\* lines 47 and 51: the two tests that absorb a neighbour
Matches(c, ref) == c[4] < ALPHA_CUTOFF \/ Similar(c, ref)

(* ---------------------------------------------------------------------- *)
(* Grid helpers                                                            *)
(* ---------------------------------------------------------------------- *)
seeds == << <<0, 0>>, <<w - 1, 0>>, <<0, h - 1>>, <<w - 1, h - 1>> >>

\* variant: the last direction left out
Dirs_NoUp == << <<1, 0>>, <<-1, 0>>, <<0, 1>> >>

\* variant: diagonal neighbours as well
Dirs_Diagonal == << <<1, 0>>, <<-1, 0>>, <<0, 1>>, <<0, -1>>,
                    <<1, 1>>, <<-1, -1>>, <<1, -1>>, <<-1, 1>> >>

Dirs == << <<1, 0>>, <<-1, 0>>, <<0, 1>>, <<0, -1>> >>

InBounds(c) == 0 <= c[1] /\ c[1] < w /\ 0 <= c[2] /\ c[2] < h

\* the neighbours of c in the order of the inner for loop, in-bounds ones only
Neighbours(c) ==
    SelectSeq([i \in 1 .. Len(Dirs) |-> <<c[1] + Dirs[i][1], c[2] + Dirs[i][2]>>],
              InBounds)

\* status[sx][sy] raises IndexError on an empty list; with w >= 1 and h >= 1
\* every seed index is in range
RaisesIndexError(s) == ~InBounds(s)

\* variant: one global reference colour, the first corner's
RefColor_FirstCorner(s) == pixels[<<0, 0>>]

\* line 33
RefColor(s) == pixels[s]

\* variant: the corner is enqueued but not labelled
MarkSeed_Forgotten(st, s) == st

\* line 37
MarkSeed(st, s) == [st EXCEPT ![s] = 1]

\* variant: no skip test
SeedSkipped_Never(s) == FALSE

\* line 30: a seed whose corner is already labelled is skipped
SeedSkipped(s) == status[s] # 0

\* line 44: only cells still unknown are tested
Unknown(c) == status[c] = 0

\* variant: the head is read but stays in the deque
Rest_Keep(queue) == queue

\* line 40: popleft
Rest(queue) == Tail(queue)

\* variant: the two colours swapped
RenderPixel_Swapped(label) == IF label = 1 THEN BLACK ELSE TRANSPARENT

\* lines 77-80
RenderPixel(label) == IF label = 1 THEN TRANSPARENT ELSE BLACK

\* variant: the last row is not rendered
RenderFinished_Early(y) == y >= h - 1

\* the render loop ends after row h - 1
RenderFinished(y) == y >= h

(* ---------------------------------------------------------------------- *)
(* Initial state: process() is entered, nothing is loaded yet              *)
(* ---------------------------------------------------------------------- *)
Init ==
    /\ \/ readable = FALSE /\ w = 0 /\ h = 0 /\ pixels = <<>>
       \/ /\ readable = TRUE
          /\ w \in 0 .. MaxW
          /\ h \in 0 .. MaxH
          /\ w * h <= MaxCells
          /\ pixels \in [Cells(w, h) -> PaletteFor(w * h)]
    /\ pc = "open"
    /\ status = <<>>
    /\ si = 1
    /\ ref_color = TRANSPARENT
    /\ q = <<>>
    /\ out_pix = <<>>
    /\ ry = 0
    /\ out_file = NoFile
    /\ err = ""
    /\ owner = <<>>
    /\ enq = <<>>
    /\ saves = 0

(* ---------------------------------------------------------------------- *)
(* Lines 13-24: load, size, empty label grid                               *)
(* ---------------------------------------------------------------------- *)
Open ==
    /\ pc = "open"
    /\ IF ~readable
       THEN /\ pc' = "error"
            /\ err' = "LoadError"
            /\ UNCHANGED <<status, owner, enq>>
       ELSE /\ status' = [c \in Cells(w, h) |-> 0]
            /\ owner' = [c \in Cells(w, h) |-> 0]
            /\ enq' = [c \in Cells(w, h) |-> 0]
            /\ pc' = "seeds"
            /\ err' = err
    /\ UNCHANGED <<readable, w, h, pixels, si, ref_color, q, out_pix, ry, out_file, saves>>

\* the for loop over seeds moves to the next seed, or ends
NextSeed ==
    /\ si' = si + 1
    /\ pc' = IF si = 4 THEN "newout" ELSE "seeds"

(* ---------------------------------------------------------------------- *)
(* Lines 29-37: one iteration head of the seed loop                        *)
(* ---------------------------------------------------------------------- *)
SeedStep ==
    /\ pc = "seeds"
    /\ LET s == seeds[si] IN
         IF RaisesIndexError(s)
         THEN /\ pc' = "error"
              /\ err' = "IndexError"
              /\ UNCHANGED <<si, status, ref_color, q, owner, enq>>
         ELSE IF SeedSkipped(s)
         THEN /\ NextSeed
              /\ UNCHANGED <<err, status, ref_color, q, owner, enq>>
         ELSE /\ ref_color' = RefColor(s)
              /\ q' = <<s>>
              /\ status' = MarkSeed(status, s)
              /\ owner' = [owner EXCEPT ![s] = si]
              /\ enq' = [enq EXCEPT ![s] = @ + 1]
              /\ pc' = "bfs"
              /\ UNCHANGED <<si, err>>
    /\ UNCHANGED <<readable, w, h, pixels, out_pix, ry, out_file, saves>>

(* ---------------------------------------------------------------------- *)
(* Lines 39-53: one iteration of the while loop: pop a cell, test its four *)
(* neighbours, label and enqueue those that match                          *)
(* ---------------------------------------------------------------------- *)
Absorbed(c) ==
    SelectSeq(Neighbours(c), LAMBDA n : Unknown(n) /\ Matches(pixels[n], ref_color))

InSeq(x, sq) == \E i \in 1 .. Len(sq) : sq[i] = x

PopStep ==
    /\ pc = "bfs"
    /\ q # <<>>
    /\ LET c == Head(q)
           new == Absorbed(c)
           q2 == Rest(q) \o new
       IN /\ status' = [n \in DOMAIN status |-> IF InSeq(n, new) THEN 1 ELSE status[n]]
          /\ owner' = [n \in DOMAIN owner |-> IF InSeq(n, new) THEN si ELSE owner[n]]
          /\ enq' = [n \in DOMAIN enq |-> IF InSeq(n, new) THEN enq[n] + 1 ELSE enq[n]]
          /\ q' = q2
          /\ IF q2 = <<>>
             THEN NextSeed
             ELSE UNCHANGED <<pc, si>>
    /\ UNCHANGED <<readable, w, h, pixels, ref_color, out_pix, ry, out_file, err, saves>>

(* ---------------------------------------------------------------------- *)
(* Lines 72-73: the output image, created fully transparent                *)
(* ---------------------------------------------------------------------- *)
NewOut ==
    /\ pc = "newout"
    /\ out_pix' = [c \in Cells(w, h) |-> TRANSPARENT]
    /\ ry' = 0
    /\ pc' = IF RenderFinished(0) THEN "save" ELSE "render"
    /\ UNCHANGED <<readable, w, h, pixels, status, si, ref_color, q, out_file, err,
                   owner, enq, saves>>

(* ---------------------------------------------------------------------- *)
(* Lines 75-80: one row of the render loop                                 *)
(* ---------------------------------------------------------------------- *)
RenderRow ==
    /\ pc = "render"
    /\ out_pix' = [c \in DOMAIN out_pix |->
                     IF c[2] = ry THEN RenderPixel(status[c]) ELSE out_pix[c]]
    /\ ry' = ry + 1
    /\ pc' = IF RenderFinished(ry + 1) THEN "save" ELSE "render"
    /\ UNCHANGED <<readable, w, h, pixels, status, si, ref_color, q, out_file, err,
                   owner, enq, saves>>

(* ---------------------------------------------------------------------- *)
(* Line 82: out.save(out_path); lines 85-86 catch its failure              *)
(* ---------------------------------------------------------------------- *)
SaveOk ==
    /\ pc = "save"
    /\ out_file' = [exists |-> TRUE, px |-> out_pix]
    /\ saves' = saves + 1
    /\ pc' = "done"
    /\ UNCHANGED <<readable, w, h, pixels, status, si, ref_color, q, out_pix, ry, err,
                   owner, enq>>

SaveFails ==
    /\ pc = "save"
    /\ saves' = saves + 1
    /\ err' = "SaveError"
    /\ pc' = "error"
    /\ UNCHANGED <<readable, w, h, pixels, status, si, ref_color, q, out_pix, ry,
                   out_file, owner, enq>>

Next ==
    \/ Open
    \/ SeedStep
    \/ PopStep
    \/ NewOut
    \/ RenderRow
    \/ SaveOk
    \/ SaveFails

Spec == Init /\ [][Next]_vars

\* The same program on the images of at most TermCells cells. process() is
\* one sequential call: it keeps running until it returns.
TermInit == Init /\ w * h <= TermCells
TermSpec == TermInit /\ [][Next]_vars /\ WF_vars(Next)

(* ====================================================================== *)
(* Properties                                                              *)
(* ====================================================================== *)
Corners == {seeds[i] : i \in 1 .. 4}

AllCells == Cells(w, h)

\* 4-connected adjacency, stated on coordinates
Adjacent(c, n) ==
    \/ c[1] = n[1] /\ (c[2] = n[2] + 1 \/ n[2] = c[2] + 1)
    \/ c[2] = n[2] /\ (c[1] = n[1] + 1 \/ n[1] = c[1] + 1)

\* the cells joined to a cell of S by a 4-connected path inside Allowed
RECURSIVE Closure(_, _)
Closure(S, Allowed) ==
    LET more == {n \in Allowed \ S : \E c \in S : Adjacent(c, n)}
    IN IF more = {} THEN S ELSE Closure(S \cup more, Allowed)

\* "alpha < 10 or RGB distance strictly below 30", spelled out
NearZeroAlpha(c) == c[4] < 10
CloseTo(c, ref) ==
    (c[1] - ref[1]) * (c[1] - ref[1]) + (c[2] - ref[2]) * (c[2] - ref[2])
      + (c[3] - ref[3]) * (c[3] - ref[3]) < 900
Absorbable(c, ref) == NearZeroAlpha(c) \/ CloseTo(c, ref)

\* the seed loop has ended
Classified == pc \in {"newout", "render", "save", "done"} \/ err = "SaveError"

\* the render loop has ended
Rendered == pc \in {"save", "done"} \/ err = "SaveError"

\* cells reachable from corner s through cells that s's own colour absorbs
ReachFrom(s) ==
    Closure({s}, {n \in AllCells : Absorbable(pixels[n], pixels[s])})

(* ---------------------------------------------------------------------- *)
\* C1 (as stated): after classification, every cell reachable from any
\* corner s through cells with alpha < 10 or RGB distance < 30 to s's own
\* pixel is Background.
C1_Complete_AnyCorner ==
    pc = "newout" =>
        \A s \in Corners : \A c \in ReachFrom(s) : status[c] = 1

\* C1 (amended): after classification, for each corner s whose own fill ran
\* (s was still unknown at its turn), every cell reachable from s through
\* cells that no earlier seed's fill labelled and that have alpha < 10 or
\* RGB distance < 30 to s's own pixel is Background.
C1_Complete_OwnFill ==
    pc = "newout" =>
        \A i \in 1 .. 4 :
            owner[seeds[i]] = i =>
                \A c \in Closure({seeds[i]},
                                 {n \in AllCells :
                                     /\ owner[n] \notin 1 .. i - 1
                                     /\ Absorbable(pixels[n], pixels[seeds[i]])}) :
                    status[c] = 1

\* a later seed ran its own fill next to cells an earlier fill had labelled,
\* and absorbed a cell beyond its corner
C1_Witness ==
    /\ pc = "newout"
    /\ \E i \in 2 .. 4 :
         /\ owner[seeds[i]] = i
         /\ \E c \in AllCells : c # seeds[i] /\ owner[c] = i
         /\ \E c \in AllCells : owner[c] \in 1 .. i - 1 /\ c \notin Corners

(* ---------------------------------------------------------------------- *)
\* C2: every Background cell is joined to the corner of the seed whose fill
\* absorbed it by a 4-connected path of Background cells that all have
\* alpha < 10 or RGB distance < 30 to that corner's pixel; a cell with no
\* such path from any corner has status 0; no other status value occurs.
C2_Sound ==
    pc = "newout" =>
        LET Path(i) == Closure({seeds[i]},
                               {n \in AllCells :
                                   /\ status[n] = 1
                                   /\ Absorbable(pixels[n], pixels[seeds[i]])})
            Joined == UNION {Path(i) : i \in 1 .. 4}
        IN /\ \A c \in AllCells : status[c] \in {0, 1}
           /\ \A i \in 1 .. 4 :
                LET P == Path(i)
                IN \A c \in AllCells : status[c] = 1 /\ owner[c] = i => c \in P
           /\ \A c \in AllCells : status[c] = 1 => owner[c] \in 1 .. 4
           /\ \A c \in AllCells \ Joined : status[c] = 0

\* two fills with different reference colours have each absorbed a cell
\* that is not a corner
C2_Witness ==
    /\ pc = "newout"
    /\ \E c, d \in AllCells \ Corners :
         /\ status[c] = 1 /\ status[d] = 1
         /\ owner[c] # owner[d]
         /\ pixels[seeds[owner[c]]] # pixels[seeds[owner[d]]]
    /\ \E c \in AllCells : status[c] = 0

(* ---------------------------------------------------------------------- *)
\* cells that no fill can absorb: alpha >= 10 and RGB distance >= 30 from
\* every corner's colour
NeverAbsorbed(c) ==
    /\ pixels[c][4] >= 10
    /\ \A s \in Corners : ~CloseTo(pixels[c], pixels[s])

\* the cells a fill can absorb
Absorbables == {n \in AllCells : ~NeverAbsorbed(n)}

\* the smallest region that holds c and whose 4-neighbour boundary consists
\* only of never-absorbed cells, Free being the absorbable cells; every
\* region with such a boundary is a union of these
Region(c, Free) == Closure({c}, Free)

\* C3: every cell of a region that holds no corner and whose boundary
\* consists only of never-absorbed cells has status 0 and is opaque black in
\* the rendered and in the saved image, whatever its own colour or alpha.
C3_HolesFilled ==
    pc = "done" =>
        LET Free == Absorbables
        IN \A c \in AllCells \ Corners :
             LET R == Region(c, Free)
             IN R \cap Corners = {} =>
                  \A d \in R :
                     /\ status[d] = 0
                     /\ out_pix[d] = <<0, 0, 0, 255>>
                     /\ out_file.px[d] = <<0, 0, 0, 255>>

\* a saved image with an enclosed cell of alpha below 10 whose RGB is the
\* RGB of a corner
C3_Witness ==
    /\ pc = "done"
    /\ \E c \in AllCells \ Corners :
         /\ Region(c, Absorbables) \cap Corners = {}
         /\ pixels[c][4] < 10
         /\ \E s \in Corners : CloseTo(pixels[c], pixels[s])

(* ---------------------------------------------------------------------- *)
\* C4: once rendered, a pixel of the output is (0,0,0,0) exactly when its
\* cell's status is 1 and (0,0,0,255) otherwise; the saved file is that
\* image; at no time does the output hold any other pixel value.
C4_BinaryOutput ==
    /\ \A c \in DOMAIN out_pix : out_pix[c] \in {<<0, 0, 0, 0>>, <<0, 0, 0, 255>>}
    /\ Rendered =>
         /\ DOMAIN out_pix = AllCells
         /\ \A c \in AllCells :
              /\ out_pix[c] = <<0, 0, 0, 0>> <=> status[c] = 1
              /\ out_pix[c] = <<0, 0, 0, 255>> <=> status[c] # 1
    /\ out_file.exists => out_file.px = out_pix

\* a saved image with a black pixel over an input pixel that is neither
\* black nor opaque, and a transparent pixel over an opaque input pixel
C4_Witness ==
    /\ pc = "done"
    /\ \E c \in AllCells : out_file.px[c] = <<0, 0, 0, 255>> /\ pixels[c][4] = 10
    /\ \E c \in AllCells : out_file.px[c] = <<0, 0, 0, 0>> /\ pixels[c][4] = 255

(* ---------------------------------------------------------------------- *)
\* C5: when classification has ended every corner has status 1, and every
\* corner is (0,0,0,0) in the rendered and in the saved image.
C5_CornersBackground ==
    /\ Classified => \A s \in Corners : status[s] = 1
    /\ Rendered => \A s \in Corners : out_pix[s] = <<0, 0, 0, 0>>
    /\ pc = "done" => \A s \in Corners : out_file.px[s] = <<0, 0, 0, 0>>

\* a saved image whose corner pixel was opaque and unlike every neighbour,
\* next to a cell that stayed opaque black
C5_Witness ==
    /\ pc = "done"
    /\ \E s \in Corners :
         /\ pixels[s][4] = 255
         /\ \E n \in AllCells :
              Adjacent(s, n) /\ status[n] = 0 /\ ~CloseTo(pixels[n], pixels[s])

(* ---------------------------------------------------------------------- *)
SameRGB(a, b) == a[1] = b[1] /\ a[2] = b[2] /\ a[3] = b[3]

Uniform == \A c \in AllCells : SameRGB(pixels[c], pixels[<<0, 0>>])

\* C6: in an image whose pixels all have the same RGB colour every cell has
\* status 1 when classification has ended, and the whole output is
\* transparent.
C6_UniformAllBackground ==
    Classified /\ Uniform =>
        /\ \A c \in AllCells : status[c] = 1
        /\ Rendered => \A c \in AllCells : out_pix[c] = <<0, 0, 0, 0>>
        /\ pc = "done" => \A c \in AllCells : out_file.px[c] = <<0, 0, 0, 0>>

\* a saved uniform image of one row or one column, with a cell that is not
\* a corner and pixels of different alpha
C6_Witness ==
    /\ pc = "done"
    /\ Uniform
    /\ w = 1 \/ h = 1
    /\ AllCells \ Corners # {}
    /\ \E c, d \in AllCells : pixels[c][4] # pixels[d][4]

(* ---------------------------------------------------------------------- *)
\* C7: out.save is called at most once, and only when all four seeds are
\* done and every cell is rendered; the file at out_path is then the fully
\* rendered image; after an error in load or classification there is no
\* call of out.save and no file.
C7_NoPartialOutput ==
    /\ saves <= 1
    /\ saves = 1 =>
         /\ si = 5 /\ q = <<>>
         /\ ry = h
         /\ \A c \in AllCells :
              out_pix[c] = IF status[c] = 1 THEN <<0, 0, 0, 0>> ELSE <<0, 0, 0, 255>>
    /\ out_file.exists => saves = 1 /\ out_file.px = out_pix
    /\ err \in {"LoadError", "IndexError"} => saves = 0 /\ out_file = NoFile
    /\ pc \in {"open", "seeds", "bfs", "newout", "render", "save"} =>
         saves = 0 /\ out_file = NoFile

\* a saved image whose last row holds an opaque black pixel
C7_Witness ==
    /\ pc = "done"
    /\ saves = 1
    /\ \E c \in AllCells : c[2] = h - 1 /\ out_file.px[c] = <<0, 0, 0, 255>>

(* ---------------------------------------------------------------------- *)
EmptyImage == readable /\ (w = 0 \/ h = 0)

\* C8: an image of zero width or zero height is rejected before
\* classification begins: the seed loop is never entered, and nothing is
\* saved.
C8_EmptyRejectedBeforeClassification ==
    EmptyImage => pc \in {"open", "error"} /\ err # "IndexError" /\ saves = 0

\* what the code does with an empty image: no call of out.save and no file
C8_EmptyNoOutput ==
    EmptyImage => saves = 0 /\ out_file = NoFile /\ pc \in {"open", "seeds", "error"}

(* ---------------------------------------------------------------------- *)
\* C9: no cell is put in a deque twice over the whole run; a cell is put in
\* a deque only in the step that changes its status from 0 to 1; a seed
\* whose corner is already labelled puts nothing in a deque.
C9_Inv ==
    \A c \in DOMAIN enq :
        /\ enq[c] <= 1
        /\ enq[c] = 1 <=> status[c] = 1

C9_Step ==
    /\ \A c \in DOMAIN enq :
         enq'[c] # enq[c] =>
             /\ status[c] = 0 /\ status'[c] = 1
             /\ enq'[c] = enq[c] + 1
             /\ \E k \in 1 .. Len(q') : q'[k] = c
    /\ \A c \in DOMAIN status :
         status'[c] # status[c] => enq'[c] = enq[c] + 1
    /\ (pc = "seeds" /\ InBounds(seeds[si]) /\ status[seeds[si]] # 0) =>
         enq' = enq /\ q' = q

C9_EnqueuedOnce == [](C9_Inv) /\ [][C9_Step]_vars

\* the four seeds of a one-row image: the third and fourth coincide with
\* the first and second, which ran fills with different colours
C9_Witness ==
    /\ pc = "newout"
    /\ h = 1 /\ w >= 3
    /\ owner[<<0, 0>>] = 1
    /\ owner[<<w - 1, 0>>] = 2
    /\ \E c \in AllCells \ Corners : owner[c] = 2

(* ---------------------------------------------------------------------- *)
NonEmptyLoaded == pc = "seeds" /\ si = 1 /\ w > 0 /\ h > 0

Finished ==
    /\ pc \in {"done", "error"}
    /\ si = 5 /\ q = <<>>
    /\ \A c \in AllCells : status[c] \in {0, 1}
    /\ ry = h
    /\ saves = 1

\* C10: for a loaded image with at least one pixel, classification ends with
\* the deque empty and every cell's status 0 or 1, then every row is
\* rendered and out.save is called once.
C10_Terminates == NonEmptyLoaded ~> Finished

\* a run that drained the deques of four separate fills and saved
C10_Witness ==
    /\ pc = "done"
    /\ Finished
    /\ \A i \in 1 .. 4 : owner[seeds[i]] = i
    /\ \E c \in AllCells \ Corners : status[c] = 1

====
